---------------------------- MODULE Spec2Model ----------------------------
(***************************************************************************)
(* VSFS: a fixed-geometry journaled file-system image and its three tools *)
(* (mkfs.c, journal.c, validator.c).                                       *)
(*                                                                         *)
(* The image is modelled byte for byte.  A buffer (the image file, a block *)
(* read into memory, a journal record) is a function from the offsets of   *)
(* its NON-ZERO bytes to their values 1..255; every other byte is zero.    *)
(* Multi-byte fields are little-endian, the layout of the packed structs   *)
(* on the platforms the tools are built for.                               *)
(***************************************************************************)
EXTENDS Integers, Sequences, FiniteSets, TLC

(***************************************************************************)
(* Program constants.                                                      *)
(***************************************************************************)
BLOCK_SIZE == 4096
FS_MAGIC == 1448297043
JOURNAL_MAGIC == 1246907980
NAME_LEN == 28
JOURNAL_BLOCKS == 16
INODE_SIZE == 128
JOURNAL_BLOCK_IDX == 1
INODE_BLOCKS == 2
DATA_BLOCKS == 64
DIRECT_POINTERS == 8
REC_DATA == 1
REC_COMMIT == 2

INODE_BMAP_IDX == JOURNAL_BLOCK_IDX + JOURNAL_BLOCKS
DATA_BMAP_IDX == INODE_BMAP_IDX + 1
INODE_START_IDX == DATA_BMAP_IDX + 1
DATA_START_IDX == INODE_START_IDX + INODE_BLOCKS
TOTAL_BLOCKS == DATA_START_IDX + DATA_BLOCKS

\* sizeof of the packed structs of journal.c
SizeofJournalHeader == 8
SizeofRecHeader == 4
SizeofDataRecord == SizeofRecHeader + 4 + BLOCK_SIZE
SizeofCommitRecord == SizeofRecHeader
SizeofDirent == 4 + NAME_LEN
SizeofSuperblock == 128

\* uint16_t wraps at U16.  The 32-bit fields of every image of this model stay
\* below 2^31 (the largest are the two magic numbers), so no 32-bit
\* arithmetic of the tools wraps here; TLC's own integers are 32-bit and it
\* stops with an error, never a wrong value, if one ever did.
U16 == 65536

(***************************************************************************)
(* Buffers of bytes.                                                       *)
(***************************************************************************)
EmptyBuf == [o \in {} |-> 0]

Get(m, o) == IF o \in DOMAIN m THEN m[o] ELSE 0

Byte(v, k) == (v \div (256 ^ k)) % 256

\* the n little-endian bytes of v, as a buffer based at 0
Enc(v, n) == [k \in {j \in 0 .. (n - 1) : Byte(v, j) # 0} |-> Byte(v, k)]

LE16(m, o) == Get(m, o) + 256 * Get(m, o + 1)

LE32(m, o) == Get(m, o) + 256 * Get(m, o + 1) + 65536 * Get(m, o + 2)
              + 16777216 * Get(m, o + 3)

\* the len bytes of m from offset off, rebased at 0
Window(m, off, len) ==
    [o \in {y - off : y \in {x \in DOMAIN m : x >= off /\ x < off + len}}
        |-> m[o + off]]

\* m with its len bytes from offset off replaced by the first len bytes of src
Patch(m, off, len, src) ==
    LET keep == {y \in DOMAIN m : y < off \/ y >= off + len}
        new  == {off + o : o \in {z \in DOMAIN src : z < len}}
    IN  [y \in keep \cup new |-> IF y \in new THEN src[y - off] ELSE m[y]]

Put16(m, off, v) == Patch(m, off, 2, Enc(v % U16, 2))
Put32(m, off, v) == Patch(m, off, 4, Enc(v, 4))

\* memset(m + off, 0, len)
Zero(m, off, len) == Patch(m, off, len, EmptyBuf)

\* a C string argument: a sequence of non-zero bytes; the buffer holding its
\* first n bytes followed by zero padding is what strncpy(dst, s, n) stores
Strncpy(s, n) == [k \in {j \in 0 .. (n - 1) : j < Len(s)} |-> s[k + 1]]

BitTest(bitmap, index) == (Get(bitmap, index \div 8) \div (2 ^ (index % 8))) % 2

BitSet(bitmap, index) ==
    IF BitTest(bitmap, index) = 1 THEN bitmap
    ELSE Patch(bitmap, index \div 8, 1,
               Enc(Get(bitmap, index \div 8) + 2 ^ (index % 8), 1))

(***************************************************************************)
(* mkfs.c: the bootstrap image.                                            *)
(***************************************************************************)
MaxNow == 2

BlockOff(n) == n * BLOCK_SIZE

MkfsSuperblock ==
    LET b0 == Put32(EmptyBuf, 0, FS_MAGIC)
        b1 == Put32(b0, 4, BLOCK_SIZE)
        b2 == Put32(b1, 8, TOTAL_BLOCKS)
        b3 == Put32(b2, 12, INODE_BLOCKS * (BLOCK_SIZE \div INODE_SIZE))
        b4 == Put32(b3, 16, JOURNAL_BLOCK_IDX)
        b5 == Put32(b4, 20, INODE_BMAP_IDX)
        b6 == Put32(b5, 24, DATA_BMAP_IDX)
        b7 == Put32(b6, 28, INODE_START_IDX)
    IN  Put32(b7, 32, DATA_START_IDX)

MkfsRootInode(now) ==
    LET r0 == Put16(EmptyBuf, 0, 2)
        r1 == Put16(r0, 2, 2)
        r2 == Put32(r1, 4, 2 * SizeofDirent)
        r3 == Put32(r2, 8, DATA_START_IDX)
        r4 == Put32(r3, 40, now)
    IN  Put32(r4, 44, now)

MkfsRootDir ==
    LET d0 == Put32(EmptyBuf, 0, 0)
        d1 == Patch(d0, 4, NAME_LEN - 1, Strncpy(<<46>>, NAME_LEN - 1))
        d2 == Put32(d1, SizeofDirent, 0)
    IN  Patch(d2, SizeofDirent + 4, NAME_LEN - 1, Strncpy(<<46, 46>>, NAME_LEN - 1))

MkfsImage(now) ==
    LET i0 == Patch(EmptyBuf, 0, BLOCK_SIZE, MkfsSuperblock)
        i1 == Patch(i0, BlockOff(INODE_BMAP_IDX), BLOCK_SIZE, BitSet(EmptyBuf, 0))
        i2 == Patch(i1, BlockOff(DATA_BMAP_IDX), BLOCK_SIZE, BitSet(EmptyBuf, 0))
        i3 == Patch(i2, BlockOff(INODE_START_IDX), BLOCK_SIZE, MkfsRootInode(now))
    IN  Patch(i3, BlockOff(DATA_START_IDX), BLOCK_SIZE, MkfsRootDir)

(***************************************************************************)
(* State.  disk is the image file vsfs.img; everything else is the memory  *)
(* of the one journal.c process running (pc says where it is), the outcome *)
(* of the invocation that ended last, and history kept for the properties. *)
(***************************************************************************)
VARIABLES
    disk,       \* the image file, a buffer
    pc,         \* "idle", or the position of the running invocation
    sb,         \* journal.c's global struct superblock
    jbuf,       \* do_install: the journal region in memory
    pos,        \* do_install: scan position in jbuf
    pending,    \* do_install: buffered writes, <<[block_no, data]>>, data an offset in jbuf
    idx,        \* do_install: the index i of the apply loop and of the clear loop
    cr,         \* do_create: what is left to write
    result,     \* how the last ended invocation ended
    prev,       \* result and pre of the invocation before that one
    pre,        \* history: the image when the current or last invocation began
    wlog,       \* history: the write_block calls of the current or last do_install
    nops,       \* number of invocations begun (bounded runs only)
    input,      \* history: what the initial image was laid out from
    verdict     \* how the last run of the validator on the image ended

vars == <<disk, pc, sb, jbuf, pos, pending, idx, cr, result, prev, pre, wlog, nops, input, verdict>>

\* bounds
MaxOps == 3

\* JournalBytes with the bug of a capacity twice that of the journal region
JournalBytesDouble == 2 * JOURNAL_BLOCKS * BLOCK_SIZE

\* the journal region: sizeof jbuf, and the capacity do_create checks against
JournalBytes == JOURNAL_BLOCKS * BLOCK_SIZE
ImageBytes == TOTAL_BLOCKS * BLOCK_SIZE

\* read_block: the block is read whole or the process exits
ReadBlock(img, n) == Window(img, BlockOff(n), BLOCK_SIZE)
ReadOK(n) == BlockOff(n) + BLOCK_SIZE <= ImageBytes

\* write_block
WriteBlock(img, n, buf) == Patch(img, BlockOff(n), BLOCK_SIZE, buf)

\* memcpy(&sb, block 0, sizeof sb)
ReadSuperblock(img) ==
    [magic |-> LE32(img, 0), block_size |-> LE32(img, 4),
     total_blocks |-> LE32(img, 8), inode_count |-> LE32(img, 12),
     journal_block |-> LE32(img, 16), inode_bitmap |-> LE32(img, 20),
     data_bitmap |-> LE32(img, 24), inode_start |-> LE32(img, 28),
     data_start |-> LE32(img, 32)]

NoSb == [magic |-> 0, block_size |-> 0, total_blocks |-> 0, inode_count |-> 0,
         journal_block |-> 0, inode_bitmap |-> 0, data_bitmap |-> 0,
         inode_start |-> 0, data_start |-> 0]

NoCr == [queue |-> <<>>, write_pos |-> 0, jh |-> [magic |-> 0, nbytes_used |-> 0],
         name |-> <<>>, chosen_inode |-> -1, dir_index |-> -1]

\* exit statuses of the process; KILLED: it was interrupted and never exited
KILLED == -1

NoResult == [cmd |-> "none", name |-> <<>>, status |-> 0, msg |-> "",
             chosen_inode |-> -1, dir_index |-> -1]

Outcome(cmd, name, status, msg, chosen, slot) ==
    [cmd |-> cmd, name |-> name, status |-> status, msg |-> msg,
     chosen_inode |-> chosen, dir_index |-> slot]

\* the process ends (return from main, exit, or a kill): its memory is gone
Exit(outcome) ==
    /\ pc' = "idle"
    /\ jbuf' = EmptyBuf
    /\ pos' = 0
    /\ pending' = <<>>
    /\ idx' = 0
    /\ cr' = NoCr
    /\ result' = outcome

\* a new invocation begins: main() opens the image and reads the superblock
Begin(budget) ==
    /\ pc = "idle"
    /\ IF budget THEN nops < MaxOps /\ nops' = nops + 1 ELSE UNCHANGED nops
    /\ sb' = ReadSuperblock(disk)
    /\ pre' = disk
    /\ prev' = [r |-> result, pre |-> pre]
    /\ wlog' = <<>>
    /\ UNCHANGED <<input, verdict>>

(***************************************************************************)
(* journal.c: do_install                                                   *)
(***************************************************************************)
JhMagic(buf) == LE32(buf, 0)
JhNbytesUsed(buf) == LE32(buf, 4)

RhType(buf, p) == LE16(buf, p)
RhSize(buf, p) == LE16(buf, p + 2)

\* ClearedJournal with the bug of a clear that forgets the header
ZeroedJournal == EmptyBuf

\* the journal region as the clear step writes it: zeros, magic, bytes-used 8
ClearedJournal ==
    Put32(Put32(EmptyBuf, 0, JOURNAL_MAGIC), 4, SizeofJournalHeader)

\* InstallBegin with the bug of an install that resets the journal header on
\* disk as soon as it has read the journal, before it replays anything
InstallBeginClearsHeader(budget) ==
    /\ Begin(budget)
    /\ LET s == ReadSuperblock(disk)
           j == Window(disk, BlockOff(s.journal_block), JournalBytes)
       IN  IF s.magic # FS_MAGIC
           THEN /\ Exit(Outcome("install", <<>>, 1, "Invalid VSFS image", -1, -1))
                /\ UNCHANGED disk
           ELSE IF JhMagic(j) # JOURNAL_MAGIC \/ JhNbytesUsed(j) <= SizeofJournalHeader
           THEN /\ Exit(Outcome("install", <<>>, 0, "", -1, -1))
                /\ UNCHANGED disk
           ELSE /\ pc' = "scan"
                /\ jbuf' = j
                /\ pos' = SizeofJournalHeader
                /\ pending' = <<>>
                /\ disk' = WriteBlock(disk, s.journal_block,
                                      Window(ClearedJournal, 0, BLOCK_SIZE))
                /\ UNCHANGED <<idx, cr, result>>

\* main() up to the scan loop
InstallBegin(budget) ==
    /\ Begin(budget)
    /\ LET s == ReadSuperblock(disk)
           j == Window(disk, BlockOff(s.journal_block), JournalBytes)
       IN  IF s.magic # FS_MAGIC
           THEN /\ Exit(Outcome("install", <<>>, 1, "Invalid VSFS image", -1, -1))
                /\ UNCHANGED disk
           ELSE IF JhMagic(j) # JOURNAL_MAGIC \/ JhNbytesUsed(j) <= SizeofJournalHeader
           THEN /\ Exit(Outcome("install", <<>>, 0, "", -1, -1))
                /\ UNCHANGED disk
           ELSE /\ pc' = "scan"
                /\ jbuf' = j
                /\ pos' = SizeofJournalHeader
                /\ pending' = <<>>
                /\ UNCHANGED <<disk, idx, cr, result>>

\* ScanEnds with the bug of a loop that runs while pos lies before bytes-used,
\* whether or not a whole record does
ScanEndsLoose(buf, p) == ~(p < JhNbytesUsed(buf))

\* the scan loop's condition and its break
ScanEnds(buf, p) ==
    \/ ~(p + SizeofRecHeader <= JhNbytesUsed(buf))
    \/ p + RhSize(buf, p) > JhNbytesUsed(buf)

\* one iteration of the scan loop, up to the writes of a commit
InstallScan ==
    /\ pc = "scan"
    /\ IF ScanEnds(jbuf, pos)
       THEN /\ pc' = "clear"
            /\ jbuf' = ClearedJournal
            /\ idx' = 0
            /\ UNCHANGED <<pos, pending>>
       ELSE IF RhType(jbuf, pos) = REC_DATA
       THEN /\ pending' = IF RhSize(jbuf, pos) # SizeofDataRecord
                          THEN pending
                          ELSE Append(pending,
                                      [block_no |-> LE32(jbuf, pos + SizeofRecHeader),
                                       data |-> pos + SizeofRecHeader + 4])
            /\ pos' = pos + RhSize(jbuf, pos)
            /\ UNCHANGED <<pc, jbuf, idx>>
       ELSE IF RhType(jbuf, pos) = REC_COMMIT
       THEN /\ pc' = "apply"
            /\ idx' = 0
            /\ UNCHANGED <<pos, pending, jbuf>>
       ELSE /\ pos' = pos + RhSize(jbuf, pos)
            /\ UNCHANGED <<pc, jbuf, idx, pending>>
    /\ UNCHANGED <<disk, sb, cr, result, prev, pre, wlog, nops, input, verdict>>

\* PendingAt with the bug of a loop that walks the list from its end
PendingAtReversed(list, i) == list[Len(list) - i]

\* pending[i]
PendingAt(list, i) == list[i + 1]

\* InstallApply with the bug of an install that does not compare the target
\* with sb.total_blocks
InstallApplyUnchecked ==
    /\ pc = "apply"
    /\ IF idx < Len(pending)
       THEN /\ disk' = WriteBlock(disk, PendingAt(pending, idx).block_no,
                                  Window(jbuf, PendingAt(pending, idx).data, BLOCK_SIZE))
            /\ wlog' = Append(wlog, PendingAt(pending, idx))
            /\ idx' = idx + 1
            /\ UNCHANGED <<pc, pos, pending>>
       ELSE /\ pending' = <<>>
            /\ pos' = pos + RhSize(jbuf, pos)
            /\ pc' = "scan"
            /\ idx' = 0
            /\ UNCHANGED <<disk, wlog>>
    /\ UNCHANGED <<sb, jbuf, cr, result, prev, pre, nops, input, verdict>>

\* InstallApply with the bug of an install that writes each target block
\* once: a record for a block already written by this install is passed over
InstallApplyFirstWins ==
    /\ pc = "apply"
    /\ IF idx < Len(pending)
       THEN /\ IF /\ PendingAt(pending, idx).block_no < sb.total_blocks
                  /\ \A k \in 1 .. Len(wlog) :
                        wlog[k].block_no # PendingAt(pending, idx).block_no
               THEN /\ disk' = WriteBlock(disk, PendingAt(pending, idx).block_no,
                                          Window(jbuf, PendingAt(pending, idx).data, BLOCK_SIZE))
                    /\ wlog' = Append(wlog, PendingAt(pending, idx))
               ELSE UNCHANGED <<disk, wlog>>
            /\ idx' = idx + 1
            /\ UNCHANGED <<pc, pos, pending>>
       ELSE /\ pending' = <<>>
            /\ pos' = pos + RhSize(jbuf, pos)
            /\ pc' = "scan"
            /\ idx' = 0
            /\ UNCHANGED <<disk, wlog>>
    /\ UNCHANGED <<sb, jbuf, cr, result, prev, pre, nops, input, verdict>>

\* InstallApply with the bug of an install that resets the journal header
\* before it applies a transaction instead of after it has applied them all
InstallApplyClearsFirst ==
    /\ pc = "apply"
    /\ IF idx < Len(pending)
       THEN /\ disk' = WriteBlock(
                          WriteBlock(disk, sb.journal_block,
                                     Window(ClearedJournal, 0, BLOCK_SIZE)),
                          PendingAt(pending, idx).block_no,
                          Window(jbuf, PendingAt(pending, idx).data, BLOCK_SIZE))
            /\ wlog' = Append(wlog, PendingAt(pending, idx))
            /\ idx' = idx + 1
            /\ UNCHANGED <<pc, pos, pending>>
       ELSE /\ pending' = <<>>
            /\ pos' = pos + RhSize(jbuf, pos)
            /\ pc' = "scan"
            /\ idx' = 0
            /\ UNCHANGED <<disk, wlog>>
    /\ UNCHANGED <<sb, jbuf, cr, result, prev, pre, nops, input, verdict>>

\* one iteration of the commit's for loop, or its end
InstallApply ==
    /\ pc = "apply"
    /\ IF idx < Len(pending)
       THEN /\ IF PendingAt(pending, idx).block_no < sb.total_blocks
               THEN /\ disk' = WriteBlock(disk, PendingAt(pending, idx).block_no,
                                          Window(jbuf, PendingAt(pending, idx).data, BLOCK_SIZE))
                    /\ wlog' = Append(wlog, PendingAt(pending, idx))
               ELSE UNCHANGED <<disk, wlog>>
            /\ idx' = idx + 1
            /\ UNCHANGED <<pc, pos, pending>>
       ELSE /\ pending' = <<>>
            /\ pos' = pos + RhSize(jbuf, pos)
            /\ pc' = "scan"
            /\ idx' = 0
            /\ UNCHANGED <<disk, wlog>>
    /\ UNCHANGED <<sb, jbuf, cr, result, prev, pre, nops, input, verdict>>

\* one iteration of the loop writing the cleared journal back, or its end
InstallClear ==
    /\ pc = "clear"
    /\ IF idx < JOURNAL_BLOCKS
       THEN /\ disk' = WriteBlock(disk, sb.journal_block + idx,
                                  Window(jbuf, idx * BLOCK_SIZE, BLOCK_SIZE))
            /\ idx' = idx + 1
            /\ UNCHANGED <<pc, jbuf, pos, pending, cr, result>>
       ELSE /\ Exit(Outcome("install", <<>>, 0, "", -1, -1))
            /\ UNCHANGED disk
    /\ UNCHANGED <<sb, prev, pre, wlog, nops, input, verdict>>

(***************************************************************************)
(* journal.c: do_create                                                    *)
(***************************************************************************)
\* FirstFreeBit with the bug of a scan that runs from the highest bit down
FirstFreeBitFromTop(bitmap, n) ==
    IF \E i \in 0 .. (n - 1) : BitTest(bitmap, i) = 0
    THEN CHOOSE i \in 0 .. (n - 1) :
            /\ BitTest(bitmap, i) = 0
            /\ \A j \in (i + 1) .. (n - 1) : BitTest(bitmap, j) = 1
    ELSE -1

\* FirstFreeBit with the bug of a scan that stops one bit short
FirstFreeBitShort(bitmap, n) ==
    IF \E i \in 0 .. (n - 2) : BitTest(bitmap, i) = 0
    THEN CHOOSE i \in 0 .. (n - 2) :
            /\ BitTest(bitmap, i) = 0
            /\ \A j \in 0 .. (i - 1) : BitTest(bitmap, j) = 1
    ELSE -1

\* the lowest index below n whose bit is clear, or -1
FirstFreeBit(bitmap, n) ==
    IF \E i \in 0 .. (n - 1) : BitTest(bitmap, i) = 0
    THEN CHOOSE i \in 0 .. (n - 1) :
            /\ BitTest(bitmap, i) = 0
            /\ \A j \in 0 .. (i - 1) : BitTest(bitmap, j) = 1
    ELSE -1

DirentFree(dblock, i) ==
    LE32(dblock, i * SizeofDirent) = 0 /\ Get(dblock, i * SizeofDirent + 4) = 0

\* the lowest free entry of a directory block, or -1
FirstFreeDirent(dblock) ==
    LET n == BLOCK_SIZE \div SizeofDirent
    IN  IF \E i \in 0 .. (n - 1) : DirentFree(dblock, i)
        THEN CHOOSE i \in 0 .. (n - 1) :
                /\ DirentFree(dblock, i)
                /\ \A j \in 0 .. (i - 1) : ~DirentFree(dblock, j)
        ELSE -1

\* inodes_arr[k] = a zeroed inode of type file with one link; size 0
NewInode(block, k) ==
    Put16(Put16(Zero(block, k * INODE_SIZE, INODE_SIZE), k * INODE_SIZE, 1),
          k * INODE_SIZE + 2, 1)

\* GrowRoot with the bug of a create that leaves the root's size as it is
GrowRootForgotten(block) == block

\* inodes[0].size += sizeof(struct dirent)
GrowRoot(block) == Put32(block, 4, LE32(block, 4) + SizeofDirent)

\* d[i].inode = ino; strncpy(d[i].name, filename, NAME_LEN)
SetDirent(dblock, i, ino, filename) ==
    Patch(Put32(dblock, i * SizeofDirent, ino),
          i * SizeofDirent + 4, NAME_LEN, Strncpy(filename, NAME_LEN))

\* DataRecord with the bug of a record whose block_no is never assigned
DataRecordNoTarget(target_blk, src_buf) ==
    [len |-> SizeofDataRecord,
     bytes |-> Patch(Put16(Put16(EmptyBuf, 0, REC_DATA), 2, SizeofDataRecord % U16),
                     SizeofRecHeader + 4, BLOCK_SIZE, src_buf)]

\* WRITE_RECORD's struct data_record
DataRecord(target_blk, src_buf) ==
    [len |-> SizeofDataRecord,
     bytes |-> Patch(Put32(Put16(Put16(EmptyBuf, 0, REC_DATA), 2, SizeofDataRecord),
                           4, target_blk),
                     8, BLOCK_SIZE, src_buf)]

CommitRecord ==
    [len |-> SizeofCommitRecord,
     bytes |-> Put16(Put16(EmptyBuf, 0, REC_COMMIT), 2, SizeofCommitRecord)]

JournalHeader(jh) == Put32(Put32(EmptyBuf, 0, jh.magic), 4, jh.nbytes_used)

\* FailCreate with the bug of a create that has already begun its
\* transaction in the journal when a check fails
FailCreateAfterWrite(filename, status, msg) ==
    /\ Exit(Outcome("create", filename, status, msg, -1, -1))
    /\ disk' = Patch(disk, BlockOff(sb'.journal_block) + SizeofJournalHeader,
                     SizeofCommitRecord, CommitRecord.bytes)

\* do_create gives up: it prints msg and returns, having written nothing;
\* main then closes the image and returns 0 (status 1: main's or read_block's
\* own exit)
FailCreate(filename, status, msg) ==
    /\ Exit(Outcome("create", filename, status, msg, -1, -1))
    /\ UNCHANGED disk

\* main() and do_create up to its first write: every read and every check
CreateBegin(filename, budget) ==
    /\ Begin(budget)
    /\ LET s == ReadSuperblock(disk)
           ibmap0 == ReadBlock(disk, s.inode_bitmap)
           chosen_inode == FirstFreeBit(ibmap0, s.inode_count)
           ibmap == BitSet(ibmap0, chosen_inode)
           inodes_per_block == BLOCK_SIZE \div INODE_SIZE
           new_inode_real_block == s.inode_start + (chosen_inode \div inodes_per_block)
           new_inode0 == NewInode(ReadBlock(disk, new_inode_real_block),
                                  chosen_inode % inodes_per_block)
           root_inode_needs_log == IF new_inode_real_block = s.inode_start THEN 0 ELSE 1
           new_inode_block == IF root_inode_needs_log = 0 THEN GrowRoot(new_inode0)
                              ELSE new_inode0
           root_inode_block == GrowRoot(ReadBlock(disk, s.inode_start))
           root_dir_data_block == LE32(ReadBlock(disk, s.inode_start), 8)
           dblock0 == ReadBlock(disk, root_dir_data_block)
           dir_index == FirstFreeDirent(dblock0)
           dblock == SetDirent(dblock0, dir_index, chosen_inode, filename)
           jh0 == [magic |-> LE32(disk, BlockOff(s.journal_block)),
                   nbytes_used |-> LE32(disk, BlockOff(s.journal_block) + 4)]
           jh == IF jh0.magic # JOURNAL_MAGIC
                 THEN [magic |-> JOURNAL_MAGIC, nbytes_used |-> SizeofJournalHeader]
                 ELSE jh0
           blocks_to_log == 3 + root_inode_needs_log
           transaction_size == blocks_to_log * SizeofDataRecord + SizeofCommitRecord
       IN  IF s.magic # FS_MAGIC THEN FailCreate(filename, 1, "Invalid VSFS image")
           ELSE IF chosen_inode = -1 THEN FailCreate(filename, 0, "Error: No free inodes")
           ELSE IF ~ReadOK(root_dir_data_block)
           THEN FailCreate(filename, 1, "Error: Unexpected EOF")
           ELSE IF dir_index < 0 THEN FailCreate(filename, 0, "Error: Directory full")
           ELSE IF jh.nbytes_used + transaction_size > JournalBytes
           THEN FailCreate(filename, 0, "Journal full. Please run install.")
           ELSE /\ pc' = "cwrite"
                /\ cr' = [queue |->
                            <<DataRecord(s.inode_bitmap, ibmap),
                              DataRecord(new_inode_real_block, new_inode_block)>>
                            \o (IF root_inode_needs_log = 1
                                THEN <<DataRecord(s.inode_start, root_inode_block)>>
                                ELSE <<>>)
                            \o <<DataRecord(root_dir_data_block, dblock), CommitRecord>>,
                          write_pos |-> BlockOff(s.journal_block) + jh.nbytes_used,
                          jh |-> jh,
                          name |-> filename,
                          chosen_inode |-> chosen_inode,
                          dir_index |-> dir_index]
                /\ UNCHANGED <<disk, jbuf, pos, pending, idx, result>>

\* CreateWrite with the bug of a create that brings the header's bytes-used
\* up to date with each record it writes
CreateWriteHeaderEarly ==
    /\ pc = "cwrite"
    /\ cr.queue # <<>>
    /\ disk' = Patch(Patch(disk, cr.write_pos, Head(cr.queue).len, Head(cr.queue).bytes),
                     BlockOff(sb.journal_block), SizeofJournalHeader,
                     JournalHeader([magic |-> cr.jh.magic,
                                    nbytes_used |-> cr.write_pos + Head(cr.queue).len
                                                    - BlockOff(sb.journal_block)]))
    /\ cr' = [cr EXCEPT !.queue = Tail(@), !.write_pos = @ + Head(cr.queue).len]
    /\ UNCHANGED <<pc, sb, jbuf, pos, pending, idx, result, prev, pre, wlog, nops, input, verdict>>

\* CreateWrite with the bug of a builder that also updates the real location:
\* the payload of a Data record goes to its target block as well
CreateWriteThrough ==
    /\ pc = "cwrite"
    /\ cr.queue # <<>>
    /\ disk' = LET logged == Patch(disk, cr.write_pos, Head(cr.queue).len, Head(cr.queue).bytes)
               IN  IF Head(cr.queue).len = SizeofDataRecord
                   THEN WriteBlock(logged, LE32(Head(cr.queue).bytes, SizeofRecHeader),
                                   Window(Head(cr.queue).bytes, SizeofRecHeader + 4, BLOCK_SIZE))
                   ELSE logged
    /\ cr' = [cr EXCEPT !.queue = Tail(@), !.write_pos = @ + Head(cr.queue).len]
    /\ UNCHANGED <<pc, sb, jbuf, pos, pending, idx, result, prev, pre, wlog, nops, input, verdict>>

\* one WRITE_RECORD, or the write of the commit record
CreateWrite ==
    /\ pc = "cwrite"
    /\ cr.queue # <<>>
    /\ disk' = Patch(disk, cr.write_pos, Head(cr.queue).len, Head(cr.queue).bytes)
    /\ cr' = [cr EXCEPT !.queue = Tail(@), !.write_pos = @ + Head(cr.queue).len]
    /\ UNCHANGED <<pc, sb, jbuf, pos, pending, idx, result, prev, pre, wlog, nops, input, verdict>>

\* the header update, fsync, and the return to main, which returns 0
CreateHeader ==
    /\ pc = "cwrite"
    /\ cr.queue = <<>>
    /\ disk' = Patch(disk, BlockOff(sb.journal_block), SizeofJournalHeader,
                     JournalHeader([magic |-> cr.jh.magic,
                                    nbytes_used |-> cr.write_pos - BlockOff(sb.journal_block)]))
    /\ Exit(Outcome("create", cr.name, 0, "", cr.chosen_inode, cr.dir_index))
    /\ UNCHANGED <<sb, prev, pre, wlog, nops, input, verdict>>

\* the process is interrupted between two of its system calls
Crash ==
    /\ pc # "idle"
    /\ Exit(Outcome(IF pc = "cwrite" THEN "create" ELSE "install",
                    cr.name, KILLED, pc, -1, -1))
    /\ UNCHANGED <<disk, sb, prev, pre, wlog, nops, input, verdict>>

(***************************************************************************)
(* validator.c.  Every report_error call site reports at most once for a   *)
(* given inode, pointer and entry, so the reports of a run form the set of *)
(* <<site, inode, pointer or block slot, entry>> and error_count is its    *)
(* size.  The validator works from its own compiled-in geometry.           *)
(***************************************************************************)
Report(site, a, b, c) == <<site, a, b, c>>

\* validate_superblock
SuperblockReports(img) ==
    LET s == ReadSuperblock(img)
    IN  {Report("invalid superblock magic", 0, 0, 0) : x \in {1} \cap (IF s.magic # FS_MAGIC THEN {1} ELSE {})}
        \cup {Report("unexpected block size", 0, 0, 0) : x \in {1} \cap (IF s.block_size # BLOCK_SIZE THEN {1} ELSE {})}
        \cup {Report("unexpected total blocks", 0, 0, 0) : x \in {1} \cap (IF s.total_blocks # TOTAL_BLOCKS THEN {1} ELSE {})}
        \cup {Report("unexpected inode count", 0, 0, 0) : x \in {1} \cap (IF s.inode_count # INODE_BLOCKS * (BLOCK_SIZE \div INODE_SIZE) THEN {1} ELSE {})}
        \cup {Report("journal block index mismatch", 0, 0, 0) : x \in {1} \cap (IF s.journal_block # JOURNAL_BLOCK_IDX THEN {1} ELSE {})}
        \cup {Report("inode bitmap index mismatch", 0, 0, 0) : x \in {1} \cap (IF s.inode_bitmap # INODE_BMAP_IDX THEN {1} ELSE {})}
        \cup {Report("data bitmap index mismatch", 0, 0, 0) : x \in {1} \cap (IF s.data_bitmap # DATA_BMAP_IDX THEN {1} ELSE {})}
        \cup {Report("inode start index mismatch", 0, 0, 0) : x \in {1} \cap (IF s.inode_start # INODE_START_IDX THEN {1} ELSE {})}
        \cup {Report("data start index mismatch", 0, 0, 0) : x \in {1} \cap (IF s.data_start # DATA_START_IDX THEN {1} ELSE {})}

\* struct inode i of the inode area
InodeArea(img) == Window(img, BlockOff(INODE_START_IDX), INODE_BLOCKS * BLOCK_SIZE)
InoType(area, i) == LE16(area, i * INODE_SIZE)
InoLinks(area, i) == LE16(area, i * INODE_SIZE + 2)
InoSize(area, i) == LE32(area, i * INODE_SIZE + 4)
InoDirect(area, i, d) == LE32(area, i * INODE_SIZE + 8 + 4 * d)

InDataRegion(blk) == blk >= DATA_START_IDX /\ blk < DATA_START_IDX + DATA_BLOCKS

RequiredBlocks(size) == (size + BLOCK_SIZE - 1) \div BLOCK_SIZE

\* seen_blocks of inode i
SeenBlocks(area, i) == Cardinality({d \in 0 .. (DIRECT_POINTERS - 1) : InoDirect(area, i, d) # 0})

\* data_owner[blk] when pointer d of inode i is examined is another inode: the
\* last pointer examined before with this block is not one of inode i's own
OwnedByOther(area, i, d) ==
    LET blk == InoDirect(area, i, d)
    IN  /\ \A e \in 0 .. (d - 1) : InoDirect(area, i, e) # blk
        /\ \E j \in 0 .. (i - 1) :
              /\ InoType(area, j) # 0
              /\ \E e \in 0 .. (DIRECT_POINTERS - 1) : InoDirect(area, j, e) = blk

\* the first loop of main over the inodes, without check_directory
InodeReports(img, inode_count) ==
    LET area == InodeArea(img)
        ibm  == ReadBlock(img, INODE_BMAP_IDX)
        used == {i \in 0 .. (inode_count - 1) : InoType(area, i) # 0}
    IN  {Report("allocation mismatch (inode vs bitmap)", i, 0, 0) :
            i \in {j \in 0 .. (inode_count - 1) :
                     (IF InoType(area, j) # 0 THEN 1 ELSE 0) # BitTest(ibm, j)}}
        \cup {Report("invalid type", i, 0, 0) : i \in {j \in used : InoType(area, j) > 2}}
        \cup {Report("size exceeds direct pointers", i, 0, 0) :
                i \in {j \in used : RequiredBlocks(InoSize(area, j)) > DIRECT_POINTERS}}
        \cup {Report("points outside data region", p[1], p[2], 0) :
                p \in {q \in used \X (0 .. (DIRECT_POINTERS - 1)) :
                         /\ InoDirect(area, q[1], q[2]) # 0
                         /\ ~InDataRegion(InoDirect(area, q[1], q[2]))}}
        \cup {Report("data block referenced by both", p[1], p[2], 0) :
                p \in {q \in used \X (0 .. (DIRECT_POINTERS - 1)) :
                         /\ InoDirect(area, q[1], q[2]) # 0
                         /\ InDataRegion(InoDirect(area, q[1], q[2]))
                         /\ OwnedByOther(area, q[1], q[2])}}
        \cup {Report("lacks blocks for declared size", i, 0, 0) :
                i \in {j \in used : SeenBlocks(area, j) < RequiredBlocks(InoSize(area, j))}}
        \cup {Report("has data blocks but zero size", i, 0, 0) :
                i \in {j \in used : RequiredBlocks(InoSize(area, j)) = 0
                                     /\ SeenBlocks(area, j) > 0}}

\* check_directory: the block slots whose block it reads, in order, before it
\* returns: those needed for size bytes, up to the first zero pointer
DirBlocksRead(area, i) ==
    {k \in 0 .. (DIRECT_POINTERS - 1) :
        /\ k * BLOCK_SIZE < InoSize(area, i)
        /\ \A j \in 0 .. k : InoDirect(area, i, j) # 0}

DirMissingBlock(area, i) ==
    \E k \in 0 .. (DIRECT_POINTERS - 1) :
        k * BLOCK_SIZE < InoSize(area, i) /\ InoDirect(area, i, k) = 0

\* the entries check_directory examines: <<block slot, entry>>
DirEntries(area, i) ==
    IF InoSize(area, i) % SizeofDirent # 0 THEN {}
    ELSE UNION {LET rem   == InoSize(area, i) - k * BLOCK_SIZE
                    chunk == IF rem > BLOCK_SIZE THEN BLOCK_SIZE ELSE rem
                IN  {<<k, e>> : e \in 0 .. (chunk \div SizeofDirent - 1)}
                : k \in DirBlocksRead(area, i)}

\* entry p of directory inode i: its inode field and its name field
DeInode(img, area, i, p) ==
    LE32(img, BlockOff(InoDirect(area, i, p[1])) + p[2] * SizeofDirent)
DeName(img, area, i, p) ==
    Window(img, BlockOff(InoDirect(area, i, p[1])) + p[2] * SizeofDirent + 4, NAME_LEN)

\* memchr(name, 0, sizeof name) != NULL
Terminated(name) == \E k \in 0 .. (NAME_LEN - 1) : Get(name, k) = 0

\* strcmp(name, s) == 0 for a terminated name
StrEq(name, s) ==
    /\ \A k \in 1 .. Len(s) : Get(name, k - 1) = s[k]
    /\ Get(name, Len(s)) = 0

\* how far check_directory gets with an entry
DeLive(img, area, i, p) ==
    ~(DeInode(img, area, i, p) = 0 /\ Get(DeName(img, area, i, p), 0) = 0)
DeInRange(img, area, i, p, inode_count) ==
    DeLive(img, area, i, p) /\ DeInode(img, area, i, p) < inode_count
\* the entries that reach link_refs[de->inode]++
DeCounted(img, area, i, p, inode_count) ==
    /\ DeInRange(img, area, i, p, inode_count)
    /\ Terminated(DeName(img, area, i, p))
    /\ Get(DeName(img, area, i, p), 0) # 0

DirReports(img, i, inode_count) ==
    LET area == InodeArea(img)
        ents == DirEntries(area, i)
        counted == {p \in ents : DeCounted(img, area, i, p, inode_count)}
        saw_dot == \E p \in counted : StrEq(DeName(img, area, i, p), <<46>>)
        saw_dotdot == \E p \in counted : StrEq(DeName(img, area, i, p), <<46, 46>>)
    IN  IF InoSize(area, i) % SizeofDirent # 0
        THEN {Report("directory size is not dirent-aligned", i, 0, 0)}
        ELSE
        {Report("entry points to out-of-range inode", i, p[1], p[2]) :
            p \in {q \in ents : DeLive(img, area, i, q)
                                /\ ~DeInRange(img, area, i, q, inode_count)}}
        \cup {Report("entry references free inode", i, p[1], p[2]) :
            p \in {q \in ents : DeInRange(img, area, i, q, inode_count)
                                /\ InoType(area, DeInode(img, area, i, q)) = 0}}
        \cup {Report("entry has unterminated name", i, p[1], p[2]) :
            p \in {q \in ents : DeInRange(img, area, i, q, inode_count)
                                /\ ~Terminated(DeName(img, area, i, q))}}
        \cup {Report("entry has empty name", i, p[1], p[2]) :
            p \in {q \in ents : DeInRange(img, area, i, q, inode_count)
                                /\ Terminated(DeName(img, area, i, q))
                                /\ Get(DeName(img, area, i, q), 0) = 0}}
        \cup {Report("'.' entry points elsewhere", i, p[1], p[2]) :
            p \in {q \in counted : StrEq(DeName(img, area, i, q), <<46>>)
                                   /\ DeInode(img, area, i, q) # i}}
        \cup (IF DirMissingBlock(area, i)
              THEN {Report("directory missing data block", i, 0, 0)}
              ELSE (IF InoSize(area, i) > DIRECT_POINTERS * BLOCK_SIZE
                    THEN {Report("directory uses more data than direct pointers cover", i, 0, 0)}
                    ELSE {})
                   \cup (IF InoSize(area, i) > 0 /\ ~saw_dot
                         THEN {Report("directory missing '.' entry", i, 0, 0)} ELSE {})
                   \cup (IF InoSize(area, i) > 0 /\ ~saw_dotdot
                         THEN {Report("directory missing '..' entry", i, 0, 0)} ELSE {}))

\* the entries of every directory that reach link_refs[de->inode]++, as
\* <<directory inode, <<block slot, entry>>, de->inode>>
CountedRefs(img, inode_count) ==
    LET area == InodeArea(img)
        dirs == {i \in 0 .. (inode_count - 1) : InoType(area, i) = 2}
    IN  UNION {{<<i, p, DeInode(img, area, i, p)>> :
                   p \in {q \in DirEntries(area, i) : DeCounted(img, area, i, q, inode_count)}}
               : i \in dirs}

\* link_refs[t] at the end of the first loop
LinkRefs(refs, t) == Cardinality({x \in refs : x[3] = t})

\* bitmap_check_zero_tail
StrayBit(bitmap, valid_bits) ==
    \E o \in DOMAIN bitmap : \E k \in 0 .. 7 :
        o * 8 + k >= valid_bits /\ BitTest(bitmap, o * 8 + k) = 1

\* the data blocks with data_blocks_referenced[] set, as block numbers
DataReferenced(area, inode_count) ==
    {blk \in {InoDirect(area, p[1], p[2]) :
                 p \in {i \in 0 .. (inode_count - 1) : InoType(area, i) # 0}
                       \X (0 .. (DIRECT_POINTERS - 1))} :
        InDataRegion(blk)}

\* the loops of main after the first
TailReports(img, inode_count) ==
    LET area == InodeArea(img)
        ibm  == ReadBlock(img, INODE_BMAP_IDX)
        dbm  == ReadBlock(img, DATA_BMAP_IDX)
        all  == 0 .. (inode_count - 1)
        refs == CountedRefs(img, inode_count)
        referenced == DataReferenced(area, inode_count)
    IN  {Report("link count disagrees with directory refs", i, 0, 0) :
            i \in {j \in all : InoType(area, j) # 0
                               /\ InoLinks(area, j) # LinkRefs(refs, j)}}
        \cup {Report("inode bitmap marks used but inode is free", i, 0, 0) :
            i \in {j \in all : BitTest(ibm, j) = 1 /\ InoType(area, j) = 0}}
        \cup {Report("inode bitmap misses allocated inode", i, 0, 0) :
            i \in {j \in all : BitTest(ibm, j) = 0 /\ InoType(area, j) # 0}}
        \cup (IF StrayBit(ibm, inode_count)
              THEN {Report("inode bitmap has stray bit", 0, 0, 0)} ELSE {})
        \cup {Report("data bitmap marks block used but no inode references it", b, 0, 0) :
            b \in {c \in 0 .. (DATA_BLOCKS - 1) :
                     BitTest(dbm, c) = 1 /\ (c + DATA_START_IDX) \notin referenced}}
        \cup {Report("data block referenced but bitmap is clear", b, 0, 0) :
            b \in {c \in 0 .. (DATA_BLOCKS - 1) :
                     BitTest(dbm, c) = 0 /\ (c + DATA_START_IDX) \in referenced}}
        \cup (IF StrayBit(dbm, DATA_BLOCKS)
              THEN {Report("data bitmap has stray bit", 0, 0, 0)} ELSE {})

\* every report of one run that reaches the end of main
Reports(img) ==
    LET inode_count == ReadSuperblock(img).inode_count
        area == InodeArea(img)
    IN  SuperblockReports(img)
        \cup InodeReports(img, inode_count)
        \cup UNION {DirReports(img, i, inode_count) :
                      i \in {j \in 0 .. (inode_count - 1) : InoType(area, j) = 2}}
        \cup TailReports(img, inode_count)

\* a pread_block of check_directory that cannot be served: die("pread")
DirUnreadable(img) ==
    LET inode_count == ReadSuperblock(img).inode_count
        area == InodeArea(img)
    IN  \E i \in 0 .. (inode_count - 1) :
           /\ InoType(area, i) = 2
           /\ InoSize(area, i) % SizeofDirent = 0
           /\ \E k \in DirBlocksRead(area, i) : ~ReadOK(InoDirect(area, i, k))

(***************************************************************************)
(* main() of validator.c reads block 0 with pread_block(fd, 0, &sb): 4096  *)
(* bytes into the 128-byte struct superblock on its stack.  What the 3968  *)
(* bytes past the struct overwrite is the build's choice, so the outcome   *)
(* is one of SbOverflow: "benign" (nothing the run uses later is hit) or   *)
(* "fd_clobbered" (the descriptor is overwritten with the zeros that       *)
(* follow the superblock, the next pread fails and the run dies with       *)
(* status 1 before any check) or "smashed" (a saved register or return     *)
(* address is overwritten and the run is killed by SIGSEGV, status 139).   *)
(* One build always takes the same outcome.                                *)
(***************************************************************************)
SbOverflow == {"benign", "fd_clobbered", "smashed"}

\* one run of the validator: did it die, its error_count, its exit status
Validator(img, ub) ==
    IF ub = "smashed"
    THEN [died |-> TRUE, error_count |-> 0, status |-> 139]
    ELSE IF ub = "fd_clobbered" \/ DirUnreadable(img)
    THEN [died |-> TRUE, error_count |-> 0, status |-> 1]
    ELSE LET error_count == Cardinality(Reports(img))
         IN  [died |-> FALSE, error_count |-> error_count,
              status |-> IF error_count = 0 THEN 0 ELSE 1]

(***************************************************************************)
(* Specifications.                                                         *)
(*   Spec      from the mkfs image: creates with any name of Names,        *)
(*             installs and interruptions, MaxOps invocations.             *)
(*   SpecFill  from the mkfs image: creates of one plain name and installs,*)
(*             in any order and number, never interrupted; the image's     *)
(*             own capacity (inodes, journal bytes) bounds it.             *)
(*   SpecJ     install, again and again, of an image whose journal region  *)
(*             holds any sequence of at most MaxRecs records of            *)
(*             JournalRecords under any header of JournalModes.            *)
(***************************************************************************)
\* file-name arguments: "", "a", ".", and names of NAME_LEN and NAME_LEN + 1 bytes
LongName(n) == [k \in 1 .. n |-> 120]
Names == {<<>>, <<97>>, <<46>>, LongName(NAME_LEN), LongName(NAME_LEN + 1)}
PlainNames == {<<97>>}

NoInput == [recs |-> <<>>, mode |-> "mkfs"]
NoVerdict == [ub |-> "none", died |-> FALSE, error_count |-> 0, status |-> 0, reports |-> {}]

InitLocals ==
    /\ pc = "idle"
    /\ sb = NoSb
    /\ jbuf = EmptyBuf
    /\ pos = 0
    /\ pending = <<>>
    /\ idx = 0
    /\ cr = NoCr
    /\ result = NoResult
    /\ prev = [r |-> NoResult, pre |-> EmptyBuf]
    /\ wlog = <<>>
    /\ nops = 0
    /\ verdict = NoVerdict

Init ==
    /\ \E now \in 1 .. MaxNow : disk = MkfsImage(now)
    /\ pre = disk
    /\ input = NoInput
    /\ InitLocals

Next ==
    \/ \E filename \in Names : CreateBegin(filename, TRUE)
    \/ CreateWrite
    \/ CreateHeader
    \/ InstallBegin(TRUE)
    \/ InstallScan
    \/ InstallApply
    \/ InstallClear
    \/ Crash

Spec == Init /\ [][Next]_vars

NextFill ==
    \/ \E filename \in PlainNames : CreateBegin(filename, FALSE)
    \/ CreateWrite
    \/ CreateHeader
    \/ InstallBegin(FALSE)
    \/ InstallScan
    \/ InstallApply
    \/ InstallClear

SpecFill == Init /\ [][NextFill]_vars

\* bound: the number of records of an initial journal of SpecJ
MaxRecs == 4

\* two block payloads; the second differs in its last byte too
PayloadA == [o \in {0} |-> 170]
PayloadB == [o \in {0, BLOCK_SIZE - 1} |-> IF o = 0 THEN 187 ELSE 1]

\* a data block no inode uses, and the first block index past the image
SpareBlock == DATA_START_IDX + 1

\* the records an initial journal is laid out from: full Data records (two
\* payloads for one block; one target out of range), a Commit record, a Data
\* header declaring length 0, and a Data header declaring length 8
JournalRecords ==
    {[kind |-> "data", block_no |-> SpareBlock, payload |-> PayloadA],
     [kind |-> "data", block_no |-> SpareBlock, payload |-> PayloadB],
     [kind |-> "data", block_no |-> TOTAL_BLOCKS, payload |-> PayloadA],
     [kind |-> "commit", block_no |-> 0, payload |-> EmptyBuf],
     [kind |-> "zero", block_no |-> 0, payload |-> EmptyBuf],
     [kind |-> "short", block_no |-> SpareBlock, payload |-> EmptyBuf]}

\* the bytes of a record, and the distance to the record laid out after it
RecordBytes(r) ==
    IF r.kind = "data" THEN DataRecord(r.block_no, r.payload).bytes
    ELSE IF r.kind = "commit" THEN CommitRecord.bytes
    ELSE IF r.kind = "zero" THEN Put16(EmptyBuf, 0, REC_DATA)
    ELSE Put32(Put16(Put16(EmptyBuf, 0, REC_DATA), 2, 8), 4, r.block_no)

RecordStride(r) ==
    IF r.kind = "data" THEN SizeofDataRecord
    ELSE IF r.kind = "commit" THEN SizeofCommitRecord
    ELSE IF r.kind = "zero" THEN SizeofRecHeader
    ELSE 8

\* the offset in the journal region of record i of recs (of the end, for Len + 1)
RECURSIVE RecordPos(_, _)
RecordPos(recs, i) ==
    IF i = 1 THEN SizeofJournalHeader
    ELSE RecordPos(recs, i - 1) + RecordStride(recs[i - 1])

RECURSIVE LayOut(_, _, _)
LayOut(recs, i, buf) ==
    IF i > Len(recs) THEN buf
    ELSE LayOut(recs, i + 1,
                Patch(buf, RecordPos(recs, i), RecordStride(recs[i]), RecordBytes(recs[i])))

\* headers: "used" counts every record; "cut" stops 2 bytes short of the end
\* of the last one; "nomagic" has no magic; "unused" has bytes-used = 8
JournalModes == {"used", "cut", "nomagic", "unused"}

JournalImage(recs, mode) ==
    LET end == RecordPos(recs, Len(recs) + 1)
        hdr == [magic |-> IF mode = "nomagic" THEN 0 ELSE JOURNAL_MAGIC,
                nbytes_used |-> IF mode = "unused" THEN SizeofJournalHeader
                                ELSE IF mode = "cut" /\ recs # <<>> THEN end - 2
                                ELSE end]
    IN  Patch(LayOut(recs, 1, EmptyBuf), 0, SizeofJournalHeader, JournalHeader(hdr))

InitJ ==
    /\ \E n \in 0 .. MaxRecs : \E recs \in [1 .. n -> JournalRecords] :
       \E mode \in JournalModes :
          /\ input = [recs |-> recs, mode |-> mode]
          /\ disk = Patch(MkfsImage(1), BlockOff(JOURNAL_BLOCK_IDX), JournalBytes,
                          JournalImage(recs, mode))
    /\ pre = disk
    /\ InitLocals

NextJ ==
    \/ InstallBegin(FALSE)
    \/ InstallScan
    \/ InstallApply
    \/ InstallClear

SpecJ == InitJ /\ [][NextJ]_vars

(***************************************************************************)
(* Properties.                                                             *)
(***************************************************************************)
JournalLo == BlockOff(JOURNAL_BLOCK_IDX)
JournalHi == JournalLo + JournalBytes

\* the bytes of an image outside the 16 journal blocks, and its journal region
RealPart(img) == [o \in {x \in DOMAIN img : x < JournalLo \/ x >= JournalHi} |-> img[o]]
JournalPart(img) == Window(img, JournalLo, JournalBytes)

\* the invocation ran to its end and did what was asked
Succeeded(r) == r.status = 0 /\ r.msg = ""

Ended(cmd) == pc = "idle" /\ result.cmd = cmd

\* C1: a successful create leaves every byte outside the journal region as it
\* was when the call began, at each of its writes and at its end, so a run of
\* the validator (whatever its build does with the overflowing superblock
\* read) gives the same outcome and violation count before and after it.
C1_CreateWritesOnlyJournal ==
    /\ pc = "cwrite" => RealPart(disk) = RealPart(pre)
    /\ (Ended("create") /\ Succeeded(result)) =>
          /\ RealPart(disk) = RealPart(pre)
          /\ \A ub \in SbOverflow : Validator(disk, ub) = Validator(pre, ub)

\* a create has succeeded and its transaction is in the journal
C1_Witness ==
    /\ Ended("create") /\ Succeeded(result)
    /\ JournalPart(disk) # JournalPart(pre)
    /\ JhNbytesUsed(JournalPart(disk)) > SizeofJournalHeader

\* the root directory's first data block and its entry i
RootDir(img) == ReadBlock(img, InoDirect(InodeArea(img), 0, 0))
EntryInode(dblock, i) == LE32(dblock, i * SizeofDirent)
EntryName(dblock, i) == Window(dblock, i * SizeofDirent + 4, NAME_LEN)

Consistent == [died |-> FALSE, error_count |-> 0, status |-> 0]

\* C5: from an image the validator finds consistent, a successful create(name)
\* followed by install leaves the entry (new inode, name) in the root
\* directory, the new inode's bitmap bit set, root's size one entry larger,
\* and an image the validator finds consistent, whatever the name.  (The
\* validator is taken in the build where its superblock read does no harm.)
C5_CreateInstallConsistent ==
    (/\ Ended("install") /\ Succeeded(result)
     /\ prev.r.cmd = "create" /\ Succeeded(prev.r)
     /\ Validator(prev.pre, "benign") = Consistent)
    => /\ EntryInode(RootDir(disk), prev.r.dir_index) = prev.r.chosen_inode
       /\ EntryName(RootDir(disk), prev.r.dir_index) = Strncpy(prev.r.name, NAME_LEN)
       /\ BitTest(ReadBlock(disk, INODE_BMAP_IDX), prev.r.chosen_inode) = 1
       /\ InoSize(InodeArea(disk), 0) = InoSize(InodeArea(prev.pre), 0) + SizeofDirent
       /\ Validator(disk, "benign") = Consistent

(***************************************************************************)
(* The initial journal of SpecJ, read off the records it was laid out      *)
(* from (input), not off its bytes.                                        *)
(***************************************************************************)
\* the records that lie whole within bytes-used
Visible ==
    IF input.mode = "used" THEN input.recs
    ELSE IF input.mode = "cut" THEN SubSeq(input.recs, 1, Len(input.recs) - 1)
    ELSE <<>>

\* install finds the journal non-empty
InputNonEmpty == input.mode \in {"used", "cut"} /\ input.recs # <<>>

\* the index of the last visible Commit record, 0 if there is none
LastCommit ==
    LET cs == {i \in 1 .. Len(Visible) : Visible[i].kind = "commit"}
    IN  IF cs = {} THEN 0 ELSE CHOOSE i \in cs : \A j \in cs : j <= i

\* full Data records followed by a Commit, and those after the last Commit
CommittedRecs == {i \in 1 .. LastCommit : Visible[i].kind = "data"}
TornRecs == {i \in (LastCommit + 1) .. Len(Visible) : Visible[i].kind = "data"}

\* committed transactions: Commit records closing at least one full Data record
Transactions ==
    {c \in 1 .. Len(Visible) :
        /\ Visible[c].kind = "commit"
        /\ \E i \in 1 .. (c - 1) :
              /\ Visible[i].kind = "data"
              /\ \A j \in i .. (c - 1) : Visible[j].kind # "commit"}

\* where the payload of record i lies in the journal region
PayloadPos(i) == RecordPos(input.recs, i) + SizeofRecHeader + 4

\* the committed records with a target inside the image, in log order, as
\* write_block calls
RECURSIVE CommittedWrites(_)
CommittedWrites(i) ==
    IF i > Len(Visible) THEN <<>>
    ELSE (IF i \in CommittedRecs /\ Visible[i].block_no < TOTAL_BLOCKS
          THEN <<[block_no |-> Visible[i].block_no, data |-> PayloadPos(i)]>>
          ELSE <<>>) \o CommittedWrites(i + 1)

\* what block b must hold after install: the payload of the last committed
\* record targeting it, or what it held before
ExpectedBlock(b) ==
    LET hits == {i \in CommittedRecs : Visible[i].block_no = b}
    IN  IF hits = {} THEN ReadBlock(pre, b)
        ELSE Visible[CHOOSE i \in hits : \A j \in hits : j <= i].payload

RealBlocks == (0 .. (TOTAL_BLOCKS - 1))
              \ (JOURNAL_BLOCK_IDX .. (JOURNAL_BLOCK_IDX + JOURNAL_BLOCKS - 1))

\* the first install of the initial journal has run to its end
FirstInstallEnded == Ended("install") /\ Succeeded(result) /\ prev.r.cmd = "none"

\* install would find this journal region empty
JournalEmpty(j) == JhMagic(j) # JOURNAL_MAGIC \/ JhNbytesUsed(j) <= SizeofJournalHeader

\* C2: when the visible records of a non-empty journal end with full Data
\* records that no Commit follows, install, once it has ended, has made no
\* write_block call from any of them, each of their target blocks holds what
\* the committed records before them (or, without any, the image before)
\* put there, and the journal is empty.
C2_TornNeverApplied ==
    (FirstInstallEnded /\ InputNonEmpty /\ TornRecs # {})
    => /\ \A k \in 1 .. Len(wlog) : \A i \in TornRecs : wlog[k].data # PayloadPos(i)
       /\ \A i \in TornRecs :
             Visible[i].block_no \in RealBlocks
             => ReadBlock(disk, Visible[i].block_no) = ExpectedBlock(Visible[i].block_no)
       /\ JournalEmpty(JournalPart(disk))
       /\ ~JournalEmpty(JournalPart(pre))

\* install has ended on a journal whose last record is a full Data record for
\* the spare block, with no Commit anywhere, and the block is still zero
C2_Witness ==
    /\ FirstInstallEnded /\ InputNonEmpty
    /\ LastCommit = 0
    /\ \E i \in TornRecs : Visible[i].block_no = SpareBlock
    /\ ReadBlock(disk, SpareBlock) = EmptyBuf
    /\ JournalPart(disk) # JournalPart(pre)

\* C3: for a journal with at least one committed transaction, install, once
\* it has ended, has made exactly the write_block calls of the committed
\* full Data records whose target is below total_blocks, in log order, and
\* every block outside the journal holds the payload of the last committed
\* record targeting it (what it held before, if there is none).
C3_InstallAppliesAllCommitted ==
    (FirstInstallEnded /\ InputNonEmpty /\ Transactions # {})
    => /\ wlog = CommittedWrites(1)
       /\ \A b \in RealBlocks : ReadBlock(disk, b) = ExpectedBlock(b)

\* install has ended on a journal of two committed transactions, the first
\* writing payload A and the second payload B to the spare block
C3_Witness ==
    /\ FirstInstallEnded
    /\ Cardinality(Transactions) = 2
    /\ Len(wlog) = 2
    /\ Window(pre, JournalLo + wlog[1].data, BLOCK_SIZE) = PayloadA
    /\ ReadBlock(disk, SpareBlock) = PayloadB

\* C4: an install that finds the journal empty (no magic, or bytes-used at
\* most the header size) writes nothing: the whole image is as before;
\* an install that finds it non-empty and ends leaves the journal region
\* with the magic, bytes-used equal to the header size and nothing else,
\* however many transactions it applied; and an install right after an
\* install that ended changes nothing.
C4_InstallIdempotent ==
    (Ended("install") /\ Succeeded(result))
    => /\ JournalEmpty(JournalPart(pre)) => (disk = pre /\ wlog = <<>>)
       /\ ~JournalEmpty(JournalPart(pre)) =>
             /\ JhMagic(JournalPart(disk)) = JOURNAL_MAGIC
             /\ JhNbytesUsed(JournalPart(disk)) = SizeofJournalHeader
             /\ DOMAIN JournalPart(disk) \subseteq 0 .. (SizeofJournalHeader - 1)
       /\ (prev.r.cmd = "install" /\ Succeeded(prev.r)) => disk = pre

\* a second install has ended right after one that applied a transaction
C4_Witness ==
    /\ Ended("install") /\ Succeeded(result)
    /\ prev.r.cmd = "install" /\ Succeeded(prev.r)
    /\ Transactions # {}
    /\ ReadBlock(disk, SpareBlock) # EmptyBuf
    /\ disk = pre

\* C6: install terminates on every journal content: whenever the scan loop
\* goes round, the record it stands on has a declared length that moves the
\* scan position forward (a declared length of zero is rejected).
C6_ScanAlwaysAdvances ==
    (pc = "scan" /\ ~ScanEnds(jbuf, pos)) => pos + RhSize(jbuf, pos) > pos

(***************************************************************************)
(* The committed transactions of a journal region, read off its bytes the  *)
(* way the scan loop reads them.                                           *)
(***************************************************************************)
\* the transactions the scan finds from position p on: each the list of the
\* full Data records (target, payload position) one Commit closes
RECURSIVE Txns(_, _, _)
Txns(buf, p, pend) ==
    IF ScanEnds(buf, p) \/ RhSize(buf, p) = 0 THEN <<>>
    ELSE IF RhType(buf, p) = REC_DATA
    THEN Txns(buf, p + RhSize(buf, p),
              IF RhSize(buf, p) = SizeofDataRecord
              THEN Append(pend, [block_no |-> LE32(buf, p + SizeofRecHeader),
                                 data |-> p + SizeofRecHeader + 4])
              ELSE pend)
    ELSE IF RhType(buf, p) = REC_COMMIT
    THEN <<pend>> \o Txns(buf, p + RhSize(buf, p), <<>>)
    ELSE Txns(buf, p + RhSize(buf, p), pend)

\* the transactions install finds in the journal of image img
JournalTxns(img) ==
    IF JournalEmpty(JournalPart(img)) THEN <<>>
    ELSE Txns(JournalPart(img), SizeofJournalHeader, <<>>)

RECURSIVE Flatten(_)
Flatten(txns) == IF txns = <<>> THEN <<>> ELSE Head(txns) \o Flatten(Tail(txns))

\* image img after the first n of the writes ws, payloads taken from the
\* journal region buf
RECURSIVE ApplyWrites(_, _, _, _)
ApplyWrites(img, buf, ws, n) ==
    IF n = 0 THEN img
    ELSE IF ws[n].block_no < ReadSuperblock(img).total_blocks
    THEN WriteBlock(ApplyWrites(img, buf, ws, n - 1), ws[n].block_no,
                    Window(buf, ws[n].data, BLOCK_SIZE))
    ELSE ApplyWrites(img, buf, ws, n - 1)

\* image img after the first j of its journal's transactions
AfterTxns(img, j) ==
    LET ws == Flatten(SubSeq(JournalTxns(img), 1, j))
    IN  ApplyWrites(img, JournalPart(img), ws, Len(ws))

InstallKilled == Ended("install") /\ result.status = KILLED

\* C7 as stated: when install is interrupted, the blocks outside the journal
\* are those of the image before with a whole number j of its journal's
\* transactions applied, and unless all are applied the journal is as before.
C7_CrashLeavesWholeTransactions ==
    InstallKilled
    => \E j \in 0 .. Len(JournalTxns(pre)) :
          /\ RealPart(disk) = RealPart(AfterTxns(pre, j))
          /\ j < Len(JournalTxns(pre)) => JournalPart(disk) = JournalPart(pre)

\* C7, amended: when install is interrupted, the blocks outside the journal
\* are those of the image before with a prefix of the journal's committed
\* block writes, taken in log order, applied (so whole transactions and at
\* most one transaction in part); as long as the interruption comes before
\* the clear step the journal region is byte for byte as before; and once
\* the clear step has begun every committed write has been applied.
C7_CrashLeavesPrefixAndJournal ==
    InstallKilled
    => LET ws == Flatten(JournalTxns(pre))
       IN  /\ \E n \in 0 .. Len(ws) :
                 RealPart(disk) = RealPart(ApplyWrites(pre, JournalPart(pre), ws, n))
           /\ result.msg \in {"scan", "apply"} => JournalPart(disk) = JournalPart(pre)
           /\ result.msg = "clear" =>
                 RealPart(disk) = RealPart(AfterTxns(pre, Len(JournalTxns(pre))))

\* install was interrupted inside a transaction: some of its writes are on
\* the blocks outside the journal, which are those of no whole number of
\* transactions, and the journal is untouched
C7_Witness ==
    /\ InstallKilled
    /\ result.msg = "apply"
    /\ wlog # <<>>
    /\ JournalTxns(pre) # <<>>
    /\ \A j \in 0 .. Len(JournalTxns(pre)) : RealPart(disk) # RealPart(AfterTxns(pre, j))
    /\ JournalPart(disk) = JournalPart(pre)

(***************************************************************************)
(* create's recognized failures                                            *)
(***************************************************************************)
NoFreeInodes == "Error: No free inodes"
DirectoryFull == "Error: Directory full"
JournalFull == "Journal full. Please run install."
Rejections == {NoFreeInodes, DirectoryFull, JournalFull}

\* the inodes marked used in the inode bitmap of image img
UsedInodes(img) ==
    Cardinality({i \in 0 .. (ReadSuperblock(img).inode_count - 1) :
                    BitTest(ReadBlock(img, INODE_BMAP_IDX), i) = 1})

\* the occupied entries of the root directory block of image img
OccupiedSlots(img) ==
    Cardinality({i \in 0 .. (BLOCK_SIZE \div SizeofDirent - 1) :
                    ~DirentFree(RootDir(img), i)})

\* C8: a create that ends with "no free inodes", "directory full" or
\* "journal full" leaves every byte of the image, the journal header and
\* records and the blocks outside the journal alike, as it was before.
C8_RejectedCreateWritesNothing ==
    (Ended("create") /\ result.msg \in Rejections) => disk = pre

\* a create was rejected because the journal, holding transactions, cannot
\* take another one
C8_Witness ==
    /\ Ended("create")
    /\ result.msg = JournalFull
    /\ Len(JournalTxns(pre)) > 1
    /\ disk = pre

\* C9: the tool's exit status is 0 exactly when the operation it was asked
\* for was carried out: a command that ended with a diagnostic (no free
\* inodes, directory full, journal full) ended with a nonzero status.
C9_StatusZeroIffSucceeded ==
    (pc = "idle" /\ result.cmd \in {"create", "install"} /\ result.status # KILLED)
    => (result.status = 0 <=> result.msg = "")

\* C10 as stated: from the bootstrap image, with every create followed by an
\* install, a create succeeds as long as the root directory block has a free
\* entry among its 128, and is rejected with "directory full" when none is.
C10_CreatesUntilDirectoryFull ==
    (Ended("create") /\ JournalEmpty(JournalPart(pre)))
    => IF OccupiedSlots(pre) < BLOCK_SIZE \div SizeofDirent
       THEN Succeeded(result)
       ELSE result.msg = DirectoryFull

\* C10, amended: from the bootstrap image, with every create followed by an
\* install, a create succeeds as long as one of the 64 inodes is free, that
\* is 63 times; the next one is rejected with "no free inodes" while the
\* root directory holds 65 of its 128 entries; "directory full" is never
\* reported.
C10_CreatesUntilNoFreeInodes ==
    /\ (Ended("create") /\ JournalEmpty(JournalPart(pre)))
       => /\ OccupiedSlots(pre) = UsedInodes(pre) + 1
          /\ IF UsedInodes(pre) < ReadSuperblock(pre).inode_count
             THEN Succeeded(result)
             ELSE /\ result.msg = NoFreeInodes
                  /\ OccupiedSlots(pre) = 65
    /\ result.msg # DirectoryFull

\* the 64th create, after 63 creates each followed by an install, was
\* rejected for want of an inode with 63 directory entries still free
C10_Witness ==
    /\ Ended("create")
    /\ JournalEmpty(JournalPart(pre))
    /\ result.msg = NoFreeInodes
    /\ UsedInodes(pre) = 64
    /\ OccupiedSlots(pre) = 65

(***************************************************************************)
(* Inode allocation order                                                  *)
(***************************************************************************)
\* the bits 0 .. n-1 of the inode bitmap of image img are set and no other
FirstInodesUsed(img, n) ==
    \A i \in 0 .. (ReadSuperblock(img).inode_count - 1) :
        BitTest(ReadBlock(img, INODE_BMAP_IDX), i) = (IF i < n THEN 1 ELSE 0)

\* C11: from the bootstrap image, a create that follows an install (or is the
\* first command) and succeeds finds the inodes 0 .. k-1 in use, k >= 1, and
\* chooses inode k, the lowest unset bit of the inode bitmap on disk: the
\* creates of successive create+install pairs choose 1, 2, 3, ... and never 0.
C11_InodesAscending ==
    (Ended("create") /\ Succeeded(result) /\ JournalEmpty(JournalPart(pre)))
    => /\ result.chosen_inode = UsedInodes(pre)
       /\ result.chosen_inode >= 1
       /\ FirstInodesUsed(pre, result.chosen_inode)
       /\ BitTest(ReadBlock(pre, INODE_BMAP_IDX), result.chosen_inode) = 0

\* the create of the third create+install pair has chosen inode 3
C11_Witness ==
    /\ Ended("create") /\ Succeeded(result)
    /\ JournalEmpty(JournalPart(pre))
    /\ prev.r.cmd = "install" /\ Succeeded(prev.r)
    /\ UsedInodes(pre) = 3
    /\ result.chosen_inode = 3

(***************************************************************************)
(* The transaction a create appended                                       *)
(***************************************************************************)
\* the last transaction of the journal of image img
LastTxn(img) == JournalTxns(img)[Len(JournalTxns(img))]

\* the payload of write w of a transaction of the journal of image img
TxnPayload(img, w) == Window(JournalPart(img), w.data, BLOCK_SIZE)

\* the directory block the last transaction of image img carries: the
\* payload of its last Data record
JournaledDir(img) == TxnPayload(img, LastTxn(img)[Len(LastTxn(img))])

\* C12: after a create that succeeded, whatever the length of its file-name
\* argument, the name field of the directory entry in the journaled
\* directory block holds the first 28 bytes of the argument and has a NUL
\* byte among its 28 bytes.
C12_NameTruncatedAndTerminated ==
    (Ended("create") /\ Succeeded(result))
    => /\ EntryName(JournaledDir(disk), result.dir_index)
             = Strncpy(result.name, NAME_LEN)
       /\ Terminated(EntryName(JournaledDir(disk), result.dir_index))

(***************************************************************************)
(* Creates with no install between them                                    *)
(***************************************************************************)
\* the last two invocations were creates that both succeeded
TwoCreates ==
    /\ Ended("create") /\ Succeeded(result)
    /\ prev.r.cmd = "create" /\ Succeeded(prev.r)

\* an install has ended right after a successful create, on a journal of at
\* least two transactions
InstalledAfterCreates ==
    /\ Ended("install") /\ Succeeded(result)
    /\ prev.r.cmd = "create" /\ Succeeded(prev.r)
    /\ Len(JournalTxns(pre)) >= 2

\* C13: two creates that succeed with no install between them choose the
\* same inode and the same root-directory entry, and both end with status 0
\* and no diagnostic; after the install that follows, every block the later
\* transaction names holds that transaction's payload, the entry holds the
\* second create's inode and name, and the directory has gained one entry
\* only.
C13_StaleCreatesLastWins ==
    /\ TwoCreates
       => /\ result.chosen_inode = prev.r.chosen_inode
          /\ result.dir_index = prev.r.dir_index
          /\ Len(JournalTxns(disk)) = Len(JournalTxns(pre)) + 1
    /\ InstalledAfterCreates
       => /\ \A k \in 1 .. Len(LastTxn(pre)) :
                ReadBlock(disk, LastTxn(pre)[k].block_no)
                   = TxnPayload(pre, LastTxn(pre)[k])
          /\ EntryInode(RootDir(disk), prev.r.dir_index) = prev.r.chosen_inode
          /\ EntryName(RootDir(disk), prev.r.dir_index)
                = Strncpy(prev.r.name, NAME_LEN)
          /\ OccupiedSlots(disk) = OccupiedSlots(pre) + 1
          /\ UsedInodes(disk) = UsedInodes(pre) + 1

\* two creates with different names and then an install: the directory
\* blocks of the two transactions differ and the image holds the second
C13_Witness ==
    /\ InstalledAfterCreates
    /\ Len(JournalTxns(pre)) = 2
    /\ LET first == JournalTxns(pre)[1]
       IN  /\ TxnPayload(pre, first[Len(first)]) # JournaledDir(pre)
           /\ first[Len(first)].block_no = LastTxn(pre)[Len(LastTxn(pre))].block_no
    /\ RootDir(disk) = JournaledDir(pre)

(***************************************************************************)
(* SpecV: runs of the validator on images laid out by hand.  An image is   *)
(* the mkfs image, or the mkfs image with the root directory, one file     *)
(* inode (inode 1) and the data bitmap set as a shape of Shapes says.      *)
(***************************************************************************)
\* sizes of the file: 0, 1 and 2 blocks required
FileSizes == {0, BLOCK_SIZE, BLOCK_SIZE + 1}
\* direct[0] and direct[1] of the file
PtrLayouts == {<<0, 0>>, <<DATA_START_IDX + 1, 0>>,
               <<DATA_START_IDX + 1, DATA_START_IDX + 2>>, <<0, DATA_START_IDX + 2>>}
\* entry 0 of the root directory: "." for the root, "." for inode 1, or "x"
\* entry 1: ".." or "y";  a further entry "." for the root, or none
DotKinds == {"self", "other", "renamed"}
\* data bitmap bits set besides bit 0
BitLayouts == {{}, {1}, {1, 2}}
Shapes ==
    {d \in [present : BOOLEAN, fsize : FileSizes, fptr : PtrLayouts,
            dbits : BitLayouts, dot : DotKinds, dotdot : BOOLEAN,
            second_dot : BOOLEAN, rlinks : {2, 3}] :
        d.present \/ (d.fsize = 0 /\ d.fptr = <<0, 0>> /\ d.dbits = {})}

\* a directory entry: inode number and name
MakeDirent(dblock, i, ino, name) ==
    Patch(Put32(dblock, i * SizeofDirent, ino),
          i * SizeofDirent + 4, NAME_LEN, Strncpy(name, NAME_LEN))

ShapedRootDir(d) ==
    LET e0 == MakeDirent(EmptyBuf, 0, IF d.dot = "other" THEN 1 ELSE 0,
                         IF d.dot = "renamed" THEN <<120>> ELSE <<46>>)
        e1 == MakeDirent(e0, 1, 0, IF d.dotdot THEN <<46, 46>> ELSE <<121>>)
        e2 == IF d.present THEN MakeDirent(e1, 2, 1, <<97>>) ELSE e1
        n2 == IF d.present THEN 3 ELSE 2
    IN  IF d.second_dot THEN MakeDirent(e2, n2, 0, <<46>>) ELSE e2

ShapedInodes(d) ==
    LET n  == 2 + (IF d.present THEN 1 ELSE 0) + (IF d.second_dot THEN 1 ELSE 0)
        r0 == Put16(Put16(EmptyBuf, 0, 2), 2, d.rlinks)
        r1 == Put32(Put32(r0, 4, n * SizeofDirent), 8, DATA_START_IDX)
        f0 == Put16(Put16(r1, INODE_SIZE, 1), INODE_SIZE + 2, 1)
        f1 == Put32(f0, INODE_SIZE + 4, d.fsize)
        f2 == Put32(Put32(f1, INODE_SIZE + 8, d.fptr[1]), INODE_SIZE + 12, d.fptr[2])
    IN  IF d.present THEN f2 ELSE r1

RECURSIVE BitSetAll(_, _)
BitSetAll(bitmap, bits) ==
    IF bits = {} THEN bitmap
    ELSE LET b == CHOOSE x \in bits : TRUE
         IN  BitSetAll(BitSet(bitmap, b), bits \ {b})

ShapedImage(d) ==
    LET i0 == WriteBlock(MkfsImage(1), INODE_BMAP_IDX,
                         BitSetAll(EmptyBuf, IF d.present THEN {0, 1} ELSE {0}))
        i1 == WriteBlock(i0, DATA_BMAP_IDX, BitSetAll(EmptyBuf, {0} \cup d.dbits))
        i2 == WriteBlock(i1, INODE_START_IDX, ShapedInodes(d))
    IN  WriteBlock(i2, DATA_START_IDX, ShapedRootDir(d))

\* the reports of a run that reaches the end of main (none are kept of a
\* run that dies)
ReportsOf(img, ub) == IF ub # "benign" \/ DirUnreadable(img) THEN {} ELSE Reports(img)

InitV ==
    /\ \/ /\ \E now \in 1 .. MaxNow : disk = MkfsImage(now)
          /\ input = NoInput
       \/ \E d \in Shapes :
             /\ disk = ShapedImage(d)
             /\ input = [recs |-> <<>>, mode |-> "shaped", shape |-> d]
    /\ pre = disk
    /\ InitLocals

\* one run of validator.c on the image, under one outcome of its first read
Validate(ub) ==
    /\ pc = "idle"
    /\ LET run == Validator(disk, ub)
       IN  verdict' = [ub |-> ub, died |-> run.died, error_count |-> run.error_count,
                       status |-> run.status, reports |-> ReportsOf(disk, ub)]
    /\ UNCHANGED <<disk, pc, sb, jbuf, pos, pending, idx, cr, result, prev, pre,
                   wlog, nops, input>>

NextV == \E ub \in SbOverflow : Validate(ub)

SpecV == InitV /\ [][NextV]_vars

\* a run of the validator has ended; it has ended by reaching the end of main
Validated == verdict.ub # "none"
RanToEnd == Validated /\ ~verdict.died

\* C14: on the image mkfs writes, a run of the validator reaches the end of
\* main with no violation reported and exit status 0.
C14_FreshImageConsistent ==
    (Validated /\ input.mode = "mkfs")
    => /\ ~verdict.died
       /\ verdict.error_count = 0
       /\ verdict.status = 0

\* the inodes the validator takes as allocated
Allocated(img) ==
    {i \in 0 .. (ReadSuperblock(img).inode_count - 1) : InoType(InodeArea(img), i) # 0}

\* C15: when a run of the validator reaches the end of main, every allocated
\* inode whose number of non-zero direct pointers differs from the number of
\* blocks its size requires, in either direction, has a report of the block
\* count check ("lacks blocks for declared size" or "has data blocks but
\* zero size").
C15_BlockCountMismatchReported ==
    RanToEnd
    => \A i \in Allocated(disk) :
          SeenBlocks(InodeArea(disk), i) # RequiredBlocks(InoSize(InodeArea(disk), i))
          => \/ Report("lacks blocks for declared size", i, 0, 0) \in verdict.reports
             \/ Report("has data blocks but zero size", i, 0, 0) \in verdict.reports

\* the live entries of directory inode i of image img named s
EntriesNamed(img, i, s) ==
    {p \in DirEntries(InodeArea(img), i) :
        /\ DeLive(img, InodeArea(img), i, p)
        /\ StrEq(DeName(img, InodeArea(img), i, p), s)}

\* directory inode i has exactly one "." entry, for itself, and a ".." entry
DotsInOrder(img, i) ==
    /\ Cardinality(EntriesNamed(img, i, <<46>>)) = 1
    /\ \A p \in EntriesNamed(img, i, <<46>>) : DeInode(img, InodeArea(img), i, p) = i
    /\ EntriesNamed(img, i, <<46, 46>>) # {}

\* C16: when a run of the validator reaches the end of main, every allocated
\* directory inode of size > 0 whose entries are not exactly one "." for the
\* directory itself and at least one ".." has a report: a directory with two
\* "." entries is reported.
C16_DotEntriesChecked ==
    RanToEnd
    => \A i \in Allocated(disk) :
          (/\ InoType(InodeArea(disk), i) = 2
           /\ InoSize(InodeArea(disk), i) > 0
           /\ ~DotsInOrder(disk, i))
          => verdict.error_count > 0

\* bitmap with bit index cleared
BitClear(bitmap, index) ==
    IF BitTest(bitmap, index) = 0 THEN bitmap
    ELSE Patch(bitmap, index \div 8, 1,
               Enc(Get(bitmap, index \div 8) - 2 ^ (index % 8), 1))

\* image img with the data-bitmap bit of block blk cleared
DataBitCleared(img, blk) ==
    WriteBlock(img, DATA_BMAP_IDX,
               BitClear(ReadBlock(img, DATA_BMAP_IDX), blk - DATA_START_IDX))

\* the data blocks of image img that an allocated inode references and the
\* data bitmap marks used
ReferencedAndMarked(img) ==
    {blk \in DataReferenced(InodeArea(img), ReadSuperblock(img).inode_count) :
        BitTest(ReadBlock(img, DATA_BMAP_IDX), blk - DATA_START_IDX) = 1}

\* C17: for every data block that an allocated inode references and the data
\* bitmap marks used, a run of the validator on the image with that bit
\* cleared counts exactly one violation more than the run on the image as it
\* is, and its reports are the same with "data block referenced but bitmap
\* is clear" for that block added.
C17_ClearedBitOneMoreViolation ==
    Validated
    => \A blk \in ReferencedAndMarked(disk) :
          /\ Validator(DataBitCleared(disk, blk), verdict.ub).error_count
                = verdict.error_count + 1
          /\ ReportsOf(DataBitCleared(disk, blk), verdict.ub)
                = verdict.reports
                  \cup {Report("data block referenced but bitmap is clear",
                               blk - DATA_START_IDX, 0, 0)}

(***************************************************************************)
(* The shape of the transaction a create appends                           *)
(***************************************************************************)
\* the journal offset do_create appends at: jh.nbytes_used after the header
\* has been read and, without the magic, initialised
AppendOffset(img) ==
    IF JhMagic(JournalPart(img)) # JOURNAL_MAGIC THEN SizeofJournalHeader
    ELSE JhNbytesUsed(JournalPart(img))

\* the inode table block of inode i
TableBlock(i) == INODE_START_IDX + (i \div (BLOCK_SIZE \div INODE_SIZE))

\* the targets of the Data records of a create that chose inode i, in order
CreateTargets(img, i) ==
    <<INODE_BMAP_IDX, TableBlock(i)>>
    \o (IF TableBlock(i) # INODE_START_IDX THEN <<INODE_START_IDX>> ELSE <<>>)
    \o <<InoDirect(InodeArea(img), 0, 0)>>

\* C18: a create that succeeded has appended, at the bytes-used offset it
\* found, one transaction: full-block Data records for the inode bitmap, the
\* new inode's table block, the root's table block when that is another
\* block, and the root directory block, in this order and back to back, then
\* one Commit record; bytes-used has grown by the size of these records and
\* the records before the offset are untouched.
C18_CreateAppendsOneTransaction ==
    (Ended("create") /\ Succeeded(result))
    => LET at == AppendOffset(pre)
           t  == LastTxn(disk)
           n  == Len(CreateTargets(pre, result.chosen_inode))
           jb == JournalPart(disk)
       IN  /\ JournalTxns(disk) = JournalTxns(pre) \o <<t>>
           /\ [k \in 1 .. Len(t) |-> t[k].block_no]
                 = CreateTargets(pre, result.chosen_inode)
           /\ \A k \in 1 .. Len(t) :
                 /\ t[k].data = at + (k - 1) * SizeofDataRecord + SizeofRecHeader + 4
                 /\ RhType(jb, t[k].data - SizeofRecHeader - 4) = REC_DATA
                 /\ RhSize(jb, t[k].data - SizeofRecHeader - 4) = SizeofDataRecord
           /\ RhType(jb, at + n * SizeofDataRecord) = REC_COMMIT
           /\ RhSize(jb, at + n * SizeofDataRecord) = SizeofCommitRecord
           /\ JhNbytesUsed(jb) = at + n * SizeofDataRecord + SizeofCommitRecord
           /\ Window(jb, SizeofJournalHeader, at - SizeofJournalHeader)
                 = Window(JournalPart(pre), SizeofJournalHeader, at - SizeofJournalHeader)
           /\ TxnPayload(disk, t[1])
                 = BitSet(ReadBlock(pre, INODE_BMAP_IDX), result.chosen_inode)

\* a create has appended a transaction of four Data records (its inode lies
\* in the second table block) behind a transaction already in the journal
C18_Witness ==
    /\ Ended("create") /\ Succeeded(result)
    /\ AppendOffset(pre) > SizeofJournalHeader
    /\ Len(LastTxn(disk)) = 4
    /\ Len(JournalTxns(disk)) = 2

(***************************************************************************)
(* Transactions of the initial journal of SpecJ with a record that install *)
(* passes over                                                             *)
(***************************************************************************)
\* the visible Commit records
Commits == {c \in 1 .. Len(Visible) : Visible[c].kind = "commit"}

\* the records of the transaction that Commit record c closes
GroupOf(c) == {i \in 1 .. (c - 1) : \A j \in i .. (c - 1) : Visible[j].kind # "commit"}

\* record i is a full Data record whose payload install wrote to its target
Applied(i) == \E k \in 1 .. Len(wlog) : wlog[k].data = PayloadPos(i)

\* C19: when install has ended, of a committed transaction holding a Data
\* record whose declared length is not that of a full-block record (passed
\* over as corrupt), no Data record has been written to its target.
C19_CorruptRecordVoidsTransaction ==
    (FirstInstallEnded /\ InputNonEmpty)
    => \A c \in Commits :
          (\E i \in GroupOf(c) : Visible[i].kind = "short")
          => \A i \in GroupOf(c) : Visible[i].kind = "data" => ~Applied(i)

\* C20: install never writes a block at or beyond total_blocks, so the image
\* never grows; when it has ended, no committed Data record with such a
\* target has been applied, every other full Data record of the same
\* transaction has, and the journal is empty.
C20_OutOfRangeTargetDropped ==
    /\ \A k \in 1 .. Len(wlog) : wlog[k].block_no < TOTAL_BLOCKS
    /\ \A o \in DOMAIN disk : o < ImageBytes
    /\ (FirstInstallEnded /\ InputNonEmpty)
       => /\ \A c \in Commits : \A i \in GroupOf(c) :
                Visible[i].kind = "data"
                => (Applied(i) <=> Visible[i].block_no < TOTAL_BLOCKS)
          /\ JournalEmpty(JournalPart(disk))

\* install has ended on a journal with one transaction of a record for block
\* total_blocks and a record for the spare block: only the second is applied
C20_Witness ==
    /\ FirstInstallEnded /\ InputNonEmpty
    /\ Cardinality(Commits) = 1
    /\ \E c \in Commits : \E i, j \in GroupOf(c) :
          /\ Visible[i].kind = "data" /\ Visible[i].block_no = TOTAL_BLOCKS
          /\ Visible[j].kind = "data" /\ Visible[j].block_no = SpareBlock
          /\ Applied(j) /\ ~Applied(i)
    /\ Len(wlog) = 1
    /\ ReadBlock(disk, SpareBlock) # EmptyBuf
    /\ JournalPart(disk) # JournalPart(pre)

(***************************************************************************)
(* Interrupted installs.  SpecR: any number of creates on the bootstrap    *)
(* image, then at most MaxOps installs, each of which may be interrupted   *)
(* between two of its system calls.                                        *)
(***************************************************************************)
\* file-name arguments "a" and "b"
RecoveryNames == {<<97>>, <<98>>}

\* do_install is interrupted between two of its system calls
InstallCrash == pc \in {"scan", "apply", "clear"} /\ Crash

NextR ==
    \/ \E filename \in RecoveryNames : (nops = 0 /\ CreateBegin(filename, FALSE))
    \/ CreateWrite
    \/ CreateHeader
    \/ InstallBegin(TRUE)
    \/ InstallScan
    \/ InstallApply
    \/ InstallClear
    \/ InstallCrash

SpecR == Init /\ [][NextR]_vars

\* an install has run to its end right after an install that was interrupted
Recovered ==
    /\ Ended("install") /\ Succeeded(result)
    /\ prev.r.cmd = "install" /\ prev.r.status = KILLED

\* C21: when an install is interrupted after any number of its block writes
\* (in the replay or in the journal clear) and the next install runs to its
\* end, every block outside the journal holds what one uninterrupted install
\* of the image the interrupted one began on leaves there (that image with
\* all its journal's transactions applied in order), and the journal is
\* empty.
C21_RecoveryConverges ==
    Recovered
    => /\ RealPart(disk) = RealPart(AfterTxns(prev.pre, Len(JournalTxns(prev.pre))))
       /\ JournalEmpty(JournalPart(disk))

\* an install was interrupted inside the first of two differing transactions,
\* leaving blocks that are neither those before nor those after, and the
\* next install has brought them to the end state
C21_Witness ==
    /\ Recovered
    /\ prev.r.msg = "apply"
    /\ Len(JournalTxns(prev.pre)) >= 2
    /\ RealPart(AfterTxns(prev.pre, 1)) # RealPart(AfterTxns(prev.pre, 2))
    /\ \A j \in 0 .. Len(JournalTxns(prev.pre)) :
          RealPart(pre) # RealPart(AfterTxns(prev.pre, j))
    /\ RealPart(disk) # RealPart(pre)
    /\ wlog # <<>>

(***************************************************************************)
(* The order of create's writes                                            *)
(***************************************************************************)
\* the last invocation that ended was a create interrupted before its end
CreateKilled(r) == r.cmd = "create" /\ r.status = KILLED

\* C22: while create writes its records, and when it is interrupted before
\* the header write, the journal header and every journal byte below
\* bytes-used (the header size, without the magic) are as they were when it
\* began, and so is every block outside the journal, so the transactions an
\* install finds are the same; and the install that follows an
\* interrupted create finds those transactions and applies no record lying
\* at or beyond the bytes-used the create began with.
C22_HeaderWrittenLast ==
    /\ (pc = "cwrite" \/ (pc = "idle" /\ CreateKilled(result)))
       => /\ Window(JournalPart(disk), 0, AppendOffset(pre))
             = Window(JournalPart(pre), 0, AppendOffset(pre))
          /\ RealPart(disk) = RealPart(pre)
          /\ JournalTxns(disk) = JournalTxns(pre)
    /\ (CreateKilled(prev.r) /\ (pc \in {"scan", "apply", "clear"} \/ Ended("install")))
       => /\ JournalTxns(pre) = JournalTxns(prev.pre)
          /\ \A k \in 1 .. Len(wlog) :
                wlog[k].data + BLOCK_SIZE <= AppendOffset(prev.pre)

\* a create was interrupted after it had written its three Data records and
\* its Commit behind one committed transaction, and the install after it has
\* ended, having applied the committed transaction
C22_Witness ==
    /\ Ended("install") /\ Succeeded(result)
    /\ CreateKilled(prev.r)
    /\ Len(JournalTxns(prev.pre)) = 1
    /\ RhType(JournalPart(pre), AppendOffset(prev.pre) + 3 * SizeofDataRecord) = REC_COMMIT
    /\ RhType(JournalPart(prev.pre), AppendOffset(prev.pre) + 3 * SizeofDataRecord) # REC_COMMIT
    /\ Len(wlog) = 3

(***************************************************************************)
(* The journal's capacity and shape.  SpecOps: creates and installs        *)
(* without bound, each run to its end, on the image mkfs made at time 1    *)
(* (neither command reads a time stamp).                                   *)
(***************************************************************************)
InitOps ==
    /\ disk = MkfsImage(1)
    /\ pre = disk
    /\ input = NoInput
    /\ InitLocals

SpecOps == InitOps /\ [][NextFill]_vars

\* transaction_size of a create on image img: 3 Data records, 4 when the
\* inode it would choose lies outside the root's table block, and a Commit
\* (without a free inode no size is computed: taken as that of 3 records)
TransactionSize(img) ==
    LET i == FirstFreeBit(ReadBlock(img, INODE_BMAP_IDX), ReadSuperblock(img).inode_count)
        blocks_to_log == IF i >= 0 /\ TableBlock(i) # INODE_START_IDX THEN 4 ELSE 3
    IN  blocks_to_log * SizeofDataRecord + SizeofCommitRecord

\* the bytes of buf from p to end are whole transactions, given that n full
\* Data records of the current one lie before p
RECURSIVE WholeTxns(_, _, _, _)
WholeTxns(buf, p, end, n) ==
    IF p = end THEN n = 0
    ELSE IF p + SizeofRecHeader > end THEN FALSE
    ELSE IF RhType(buf, p) = REC_DATA
    THEN /\ RhSize(buf, p) = SizeofDataRecord
         /\ p + SizeofDataRecord <= end
         /\ n < 4
         /\ WholeTxns(buf, p + SizeofDataRecord, end, n + 1)
    ELSE IF RhType(buf, p) = REC_COMMIT
    THEN /\ RhSize(buf, p) = SizeofCommitRecord
         /\ n \in {3, 4}
         /\ WholeTxns(buf, p + SizeofCommitRecord, end, 0)
    ELSE FALSE

\* C23: in every state of a run of creates and installs on the bootstrap
\* image the journal's bytes-used (the header size as long as the journal
\* has no magic, as mkfs leaves it) lies between the header size and
\* 16 * 4096, and the bytes from the header to bytes-used are zero or more
\* transactions of 3 or 4 full Data records and a Commit; and a create ends
\* with "journal full" exactly when the bytes-used it found plus the size of
\* its transaction exceeds 16 * 4096.
C23_JournalBoundedAndWhole ==
    /\ AppendOffset(disk) >= SizeofJournalHeader
    /\ AppendOffset(disk) <= JOURNAL_BLOCKS * BLOCK_SIZE
    /\ WholeTxns(JournalPart(disk), SizeofJournalHeader, AppendOffset(disk), 0)
    /\ Ended("create")
       => (result.msg = JournalFull
           <=> AppendOffset(pre) + TransactionSize(pre) > JOURNAL_BLOCKS * BLOCK_SIZE)

\* a create is rejected with "journal full" behind three transactions of
\* four Data records, where a transaction of three would still have fitted
C23_Witness ==
    /\ Ended("create") /\ result.msg = JournalFull
    /\ Len(JournalTxns(disk)) = 3
    /\ AppendOffset(pre) + 3 * SizeofDataRecord + SizeofCommitRecord
          <= JOURNAL_BLOCKS * BLOCK_SIZE
    /\ disk = pre

(***************************************************************************)
(* The image between operations                                            *)
(***************************************************************************)
\* C24: in a run of creates (named "a") and installs on the bootstrap image,
\* with any number of creates between two installs, the superblock and the
\* data bitmap are in every state as mkfs wrote them, and whenever no
\* operation is running the image passes every check of the validator:
\* it would report nothing; each inode's bitmap bit is set exactly if its
\* type is not free; each inode in use has as many links as directory
\* entries refer to it; and root's size is 32 times the number of its
\* occupied entries, which are the lowest slots of its block.
C24_ImageStaysConsistent ==
    /\ ReadBlock(disk, 0) = MkfsSuperblock
    /\ ReadBlock(disk, DATA_BMAP_IDX) = BitSet(EmptyBuf, 0)
    /\ pc = "idle"
       => LET n     == ReadSuperblock(disk).inode_count
              area  == InodeArea(disk)
              ibmap == ReadBlock(disk, INODE_BMAP_IDX)
              refs  == CountedRefs(disk, n)
              root  == RootDir(disk)
              slots == 0 .. (BLOCK_SIZE \div SizeofDirent - 1)
              occ   == Cardinality({k \in slots : ~DirentFree(root, k)})
          IN  /\ ~DirUnreadable(disk)
              /\ Reports(disk) = {}
              /\ \A i \in 0 .. (n - 1) :
                    /\ BitTest(ibmap, i) = 1 <=> InoType(area, i) # 0
                    /\ InoType(area, i) # 0 => InoLinks(area, i) = LinkRefs(refs, i)
              /\ InoSize(area, 0) = SizeofDirent * occ
              /\ \A k \in slots : ~DirentFree(root, k) <=> k < occ

\* an install has ended that applied two transactions written without an
\* install between them, for an inode of the second table block
C24_Witness ==
    /\ Ended("install") /\ Succeeded(result)
    /\ Len(JournalTxns(pre)) = 2
    /\ Len(JournalTxns(pre)[2]) = 4
    /\ UsedInodes(disk) = 34
    /\ OccupiedSlots(disk) = 35
    /\ RealPart(disk) # RealPart(pre)
=============================================================================
